---- MODULE Spec2Model ----
(***************************************************************************)
(* Model of models/convnext.py: the partial-channel convolution, the MSCA  *)
(* block, the ConvNeXt backbone and the named-configuration factories.     *)
(*                                                                         *)
(* A tensor is the record [N, C, H, W] of a channels-first batch; C is the *)
(* sequence of its channels, each channel a tag [by, ch] naming the layer  *)
(* that produced it and its index there, so that the channel count is      *)
(* Len(C) and "this channel is the input's channel i" can be stated.       *)
(* A call returns [raised, at, v]: raised = "none" and the value v, or the *)
(* name of the exception and the place that raised it.                     *)
(*                                                                         *)
(* Four programs are modelled, each "construct, then call":                *)
(*   SpecPartial  PartialConv2d(...) then forward                          *)
(*   SpecBlock    MSCABlock(...) then forward                              *)
(*   Spec         ConvNeXt(...) then forward                               *)
(*   SpecFactory  a registered factory, convnext_tiny ... convnext_xlarge  *)
(* The variables are the frame of such a program: the call's arguments,    *)
(* the module object the constructor left, the tensor given to forward,    *)
(* what forward returned, and the position.                                *)
(***************************************************************************)
EXTENDS Integers, Sequences, FiniteSets, TLC

VARIABLES args, self, x, out, pc

vars == <<args, self, x, out, pc>>

(***************************************************************************)
(* Python's return and raise, and sequencing: a raise ends the function.   *)
(***************************************************************************)
Ok(v) == [raised |-> "none", at |-> "", v |-> v]

Raise(e, where) == [raised |-> e, at |-> where, v |-> <<>>]

Then(r, F(_)) == IF r.raised = "none" THEN F(r.v) ELSE r

Nothing == Ok(<<>>)

(***************************************************************************)
(* Arithmetic helpers.                                                     *)
(***************************************************************************)
RECURSIVE SumSeq(_)
SumSeq(s) == IF s = <<>> THEN 0 ELSE Head(s) + SumSeq(Tail(s))

\* int(c * r) for a ratio r = num/den that a float holds exactly
IntTimes(c, r) == (c * r.num) \div r.den

CeilDiv(a, b) == (a + b - 1) \div b

One == [num |-> 1, den |-> 1]

(***************************************************************************)
(* Tensors.                                                                *)
(***************************************************************************)
Channels(by, n) == [i \in 1..n |-> [by |-> by, ch |-> i]]

Tensor(N, C, H, W) ==
    [N |-> N, C |-> C, H |-> H, W |-> W, layout |-> "NCHW", branch |-> "none"]

Input(N, c, H, W) == Tensor(N, Channels("input", c), H, W)

Shape(t) == <<t.N, Len(t.C), t.H, t.W>>

SameGrid(a, b) == a.N = b.N /\ a.H = b.H /\ a.W = b.W

Max(a, b) == IF a >= b THEN a ELSE b

\* x.permute(0, 2, 3, 1) and x.permute(0, 3, 1, 2): the axes keep their
\* names in the record, the layout says which one is last
permute_channels_last(t) == [t EXCEPT !.layout = "NHWC"]

permute_channels_first(t) == [t EXCEPT !.layout = "NCHW"]

LastAxis(t) == IF t.layout = "NCHW" THEN t.W ELSE Len(t.C)

(***************************************************************************)
(* An elementwise + or * of two tensors, with broadcasting: on every axis  *)
(* the sizes are equal or one of them is 1.                                *)
(***************************************************************************)
Bc(a, b) == a = b \/ a = 1 \/ b = 1

Elementwise(a, b, by) ==
    IF Bc(a.N, b.N) /\ Bc(Len(a.C), Len(b.C)) /\ Bc(a.H, b.H) /\ Bc(a.W, b.W)
    THEN Ok([a EXCEPT !.N = Max(a.N, b.N),
                      !.C = Channels(by, Max(Len(a.C), Len(b.C))),
                      !.H = Max(a.H, b.H), !.W = Max(a.W, b.W)])
    ELSE Raise("RuntimeError", by)

(***************************************************************************)
(* torch.split(x, sizes, dim=1): the sizes must add up to the channels.    *)
(***************************************************************************)
torch_split(t, sizes) ==
    IF sizes[1] + sizes[2] # Len(t.C)
    THEN Raise("RuntimeError", "torch.split")
    ELSE Ok(<< [t EXCEPT !.C = SubSeq(t.C, 1, sizes[1])],
               [t EXCEPT !.C = SubSeq(t.C, sizes[1] + 1, Len(t.C))] >>)

(***************************************************************************)
(* torch.cat(ts, dim=1): every other axis must agree.                      *)
(***************************************************************************)
RECURSIVE CatChannels(_)
CatChannels(ts) == IF ts = <<>> THEN <<>> ELSE Head(ts).C \o CatChannels(Tail(ts))

torch_cat(ts) ==
    IF \E i \in 1..Len(ts) : ~SameGrid(ts[i], ts[1])
    THEN Raise("RuntimeError", "torch.cat")
    ELSE Ok([ts[1] EXCEPT !.C = CatChannels(ts)])

(***************************************************************************)
(* nn.Conv2d: the constructor checks groups; forward checks the input's    *)
(* channel count and that the padded input holds the kernel.  The output   *)
(* channels are new channels, produced by this layer.                      *)
(***************************************************************************)
Conv2d(in_channels, out_channels, kernel_size, stride, padding, groups) ==
    IF groups <= 0
    THEN Raise("ValueError", "Conv2d.groups")
    ELSE IF in_channels % groups # 0 \/ out_channels % groups # 0
    THEN Raise("ValueError", "Conv2d.groups")
    ELSE Ok([cls |-> "Conv2d", in_channels |-> in_channels,
             out_channels |-> out_channels, kernel_size |-> kernel_size,
             stride |-> stride, padding |-> padding, groups |-> groups,
             split_indices |-> <<0, in_channels>>])

ConvOut(len, k, s, p) == (len + 2 * p - k) \div s + 1

Conv2d_forward(m, t, by) ==
    IF Len(t.C) # m.in_channels
    THEN Raise("RuntimeError", by)
    ELSE IF t.H + 2 * m.padding[1] < m.kernel_size[1]
            \/ t.W + 2 * m.padding[2] < m.kernel_size[2]
    THEN Raise("RuntimeError", by)
    ELSE Ok(Tensor(t.N, Channels(by, m.out_channels),
                   ConvOut(t.H, m.kernel_size[1], m.stride, m.padding[1]),
                   ConvOut(t.W, m.kernel_size[2], m.stride, m.padding[2])))

(***************************************************************************)
(* PartialConv2d.__init__: the convolution is built over the truncated     *)
(* int(channels * conv_ratio) channels, with at least one group.           *)
(***************************************************************************)
PartialGroups(groups, conv_ratio) ==
    IF IntTimes(groups, conv_ratio) = 0 THEN 1 ELSE IntTimes(groups, conv_ratio)

SplitIndices(in_channels, in_chs) == <<in_channels - in_chs, in_chs>>

PartialConv2d(in_channels, out_channels, kernel_size, conv_ratio, stride, padding, groups) ==
    LET in_chs == IntTimes(in_channels, conv_ratio)
        out_chs == IntTimes(out_channels, conv_ratio)
        gps == PartialGroups(groups, conv_ratio)
    IN  Then(Conv2d(in_chs, out_chs, kernel_size, stride, padding, gps),
             LAMBDA conv : Ok([conv EXCEPT !.cls = "PartialConv2d",
                                  !.split_indices = SplitIndices(in_channels, in_chs)]))

(***************************************************************************)
(* PartialConv2d.forward: split, convolve the second part, concatenate     *)
(* identity first.                                                         *)
(***************************************************************************)
\* the concatenation with its operands exchanged
PartialCatSwapped(identity, conv) == torch_cat(<<conv, identity>>)

PartialCat(identity, conv) == torch_cat(<<identity, conv>>)

PartialConv2d_forward(m, t, by) ==
    Then(torch_split(t, m.split_indices),
         LAMBDA parts :
             Then(Conv2d_forward([m EXCEPT !.cls = "Conv2d"], parts[2], by),
                  LAMBDA conv : PartialCat(parts[1], conv)))

(***************************************************************************)
(* A conv_fn is nn.Conv2d or partial(PartialConv2d, conv_ratio=r); a       *)
(* module built by either is called through the same forward.              *)
(***************************************************************************)
StdConv == [fn |-> "Conv2d", conv_ratio |-> One]

Partial(num, den) == [fn |-> "PartialConv2d", conv_ratio |-> [num |-> num, den |-> den]]

CallConvFn(conv_fn, in_channels, out_channels, kernel_size, padding, groups) ==
    IF conv_fn.fn = "Conv2d"
    THEN Conv2d(in_channels, out_channels, kernel_size, 1, padding, groups)
    ELSE PartialConv2d(in_channels, out_channels, kernel_size, conv_fn.conv_ratio,
                       1, padding, groups)

Conv_forward(m, t, by) ==
    IF m.cls = "Conv2d" THEN Conv2d_forward(m, t, by)
    ELSE PartialConv2d_forward(m, t, by)

\* the three depthwise geometries the block builds: (kernel, padding)
BranchGeom == << [kernel_size |-> <<3, 3>>, padding |-> <<1, 1>>],
                 [kernel_size |-> <<1, 11>>, padding |-> <<0, 5>>],
                 [kernel_size |-> <<11, 1>>, padding |-> <<5, 0>>] >>

(***************************************************************************)
(* torch.chunk(x, 4, dim=1): chunks of ceil(C / 4) channels, as many as    *)
(* the channels fill; fewer than four when C is small or leaves a gap.     *)
(***************************************************************************)
Min(a, b) == IF a <= b THEN a ELSE b

torch_chunk(t, chunks) ==
    LET c == Len(t.C)
        size == CeilDiv(c, chunks)
        n == CeilDiv(c, size)
    IN  [i \in 1..n |-> [t EXCEPT !.C = SubSeq(t.C, (i - 1) * size + 1, Min(i * size, c))]]

\* fused.mean(dim=1, keepdim=True)
mean_channels(t, by) == [t EXCEPT !.C = Channels(by, 1)]

(***************************************************************************)
(* LayerNorm of this file (two data formats), nn.LayerNorm and nn.Linear.  *)
(***************************************************************************)
LayerNorm(normalized_shape, data_format) ==
    IF data_format \notin {"channels_last", "channels_first"}
    THEN Raise("NotImplementedError", "LayerNorm.data_format")
    ELSE Ok([cls |-> "LayerNorm", normalized_shape |-> normalized_shape,
             data_format |-> data_format])

LayerNorm_forward(m, t, by) ==
    IF m.data_format = "channels_last"
    THEN IF LastAxis(t) = m.normalized_shape
         THEN Ok([t EXCEPT !.C = Channels(by, Len(t.C))])
         ELSE Raise("RuntimeError", by)
    ELSE IF Bc(Len(t.C), m.normalized_shape)
         THEN Ok([t EXCEPT !.C = Channels(by, Max(Len(t.C), m.normalized_shape))])
         ELSE Raise("RuntimeError", by)

\* nn.LayerNorm([c, 1, 1]) on a channels-first tensor: the last three axes
\* must be exactly [c, 1, 1]
nn_LayerNorm3_forward(c, t, by) ==
    IF <<Len(t.C), t.H, t.W>> = <<c, 1, 1>>
    THEN Ok([t EXCEPT !.C = Channels(by, c)])
    ELSE Raise("RuntimeError", by)

Linear_forward(in_features, out_features, t, by) ==
    IF LastAxis(t) # in_features
    THEN Raise("RuntimeError", by)
    ELSE IF t.layout = "NCHW"
    THEN Ok([t EXCEPT !.C = Channels(by, Len(t.C)), !.W = out_features])
    ELSE Ok([t EXCEPT !.C = Channels(by, out_features)])

(***************************************************************************)
(* Stochastic-depth rates are fractions num/den of the rate unit.          *)
(* DropPath(p) in training mode draws, for each sample, whether its branch *)
(* is kept (and divided by 1 - p) or zeroed; in eval mode, and for         *)
(* nn.Identity, the branch passes unchanged.                               *)
(***************************************************************************)
Rate(num, den) == [num |-> num, den |-> den]

Positive(r) == r.num > 0

DropPathModule(drop_path) ==
    IF Positive(drop_path) THEN [cls |-> "DropPath", drop_prob |-> drop_path]
    ELSE [cls |-> "Identity", drop_prob |-> drop_path]

drop_path_forward(m, training, draw) ==
    IF m.cls = "Identity" \/ ~training THEN "kept"
    ELSE IF draw THEN "kept_rescaled" ELSE "zeroed"

(***************************************************************************)
(* MSCABlock.__init__, in the order of the code: the three depthwise       *)
(* branches are built first, then kernel_sizes is asserted, then the gate, *)
(* the fusion convolution and the MLP are built.                           *)
(***************************************************************************)
\* the assertion reduced to its first comparison
KernelSizesFirstOnly(kernel_sizes) == kernel_sizes[1] = 3

KernelSizesOk(kernel_sizes) ==
    kernel_sizes[1] = 3 /\ kernel_sizes[2] = 11 /\ kernel_sizes[3] = 11

MSCABlock_branches(dim, conv_fn) ==
    LET d4 == dim \div 4
        Branch(i) == CallConvFn(conv_fn, d4, d4, BranchGeom[i].kernel_size,
                                BranchGeom[i].padding, d4)
    IN  Then(Branch(1), LAMBDA b1 :
        Then(Branch(2), LAMBDA b2 :
        Then(Branch(3), LAMBDA b3 : Ok(<<b1, b2, b3>>))))

MSCABlock(dim, kernel_sizes, drop_path, layer_scale_init_value, conv_fn) ==
    Then(MSCABlock_branches(dim, conv_fn), LAMBDA branches :
        IF Len(kernel_sizes) # 3
        THEN Raise("AssertionError", "MSCABlock.len(kernel_sizes)")
        ELSE IF ~KernelSizesOk(kernel_sizes)
        THEN Raise("AssertionError", "MSCABlock.kernel_sizes")
        ELSE
        Then(Conv2d(dim, dim \div 8, <<1, 1>>, 1, <<0, 0>>, 1), LAMBDA attn0 :
        Then(Conv2d(dim \div 8, dim, <<1, 1>>, 1, <<0, 0>>, 1), LAMBDA attn3 :
        Then(Conv2d(dim * 2, dim, <<1, 1>>, 1, <<0, 0>>, 1), LAMBDA channel_fusion :
        Then(LayerNorm(dim, "channels_last"), LAMBDA norm :
            Ok([cls |-> "MSCABlock", dim |-> dim,
                conv_branches |-> branches,
                attn |-> [conv0 |-> attn0, norm_shape |-> dim \div 8, conv3 |-> attn3],
                channel_fusion |-> channel_fusion,
                norm |-> norm,
                pwconv1 |-> <<dim, 4 * dim>>,
                pwconv2 |-> <<4 * dim, dim>>,
                gamma |-> layer_scale_init_value > 0,
                drop_path |-> DropPathModule(drop_path)]))))))

(***************************************************************************)
(* MSCABlock.forward, step by step.                                        *)
(***************************************************************************)
\* lines 98-108: chunk, the three branches, the identity, the concatenation
MSCABlock_split_branches(m, t) ==
    LET x_split == torch_chunk(t, 4)
        Branch(i) == IF Len(x_split) < i
                     THEN Raise("IndexError", "x_split")
                     ELSE Conv_forward(m.conv_branches[i], x_split[i], "conv_branches")
    IN  Then(Branch(1), LAMBDA o1 :
        Then(Branch(2), LAMBDA o2 :
        Then(Branch(3), LAMBDA o3 :
            IF Len(x_split) < 4
            THEN Raise("IndexError", "x_split")
            ELSE torch_cat(<<o1, o2, o3, x_split[4]>>))))

\* lines 114-115: the gate over the channel mean, multiplied into fused
MSCABlock_attention(m, fused) ==
    Then(Conv2d_forward(m.attn.conv0, mean_channels(fused, "mean"), "attn.0"), LAMBDA a0 :
    Then(nn_LayerNorm3_forward(m.attn.norm_shape, a0, "attn.1"), LAMBDA a1 :
    Then(Conv2d_forward(m.attn.conv3, a1, "attn.3"), LAMBDA attn_map :
        Elementwise(fused, attn_map, "attended"))))

\* lines 118-119: concatenate the input with the gated tensor, fuse to dim
MSCABlock_fusion(m, identity, attended) ==
    Then(torch_cat(<<identity, attended>>), LAMBDA both :
        Conv2d_forward(m.channel_fusion, both, "channel_fusion"))

\* lines 122-130: the inverted MLP in channels-last layout
MSCABlock_mlp(m, fused_features) ==
    Then(LayerNorm_forward(m.norm, permute_channels_last(fused_features), "norm"), LAMBDA n :
    Then(Linear_forward(m.pwconv1[1], m.pwconv1[2], n, "pwconv1"), LAMBDA h :
    Then(Linear_forward(m.pwconv2[1], m.pwconv2[2], h, "pwconv2"), LAMBDA p :
    Then(IF m.gamma
         THEN Elementwise(p, [p EXCEPT !.N = 1, !.H = 1, !.W = 1,
                                       !.C = Channels("gamma", m.dim)], "gamma")
         ELSE Ok(p), LAMBDA g :
        Ok(permute_channels_first(g))))))

MSCABlock_forward(m, t, training, draw) ==
    LET identity == t
    IN  Then(MSCABlock_split_branches(m, t), LAMBDA cat :
        Then(Elementwise(identity, cat, "fused"), LAMBDA fused :
        Then(MSCABlock_attention(m, fused), LAMBDA attended :
        Then(MSCABlock_fusion(m, identity, attended), LAMBDA fused_features :
        Then(MSCABlock_mlp(m, fused_features), LAMBDA mlp :
        Then(Elementwise(fused_features, mlp, "block"), LAMBDA y :
            Ok([y EXCEPT !.branch = drop_path_forward(m.drop_path, training, draw)])))))))

(***************************************************************************)
(* ConvNeXt.__init__.  kernel_sizes and conv_fns are a scalar or a list:   *)
(* [list |-> FALSE, v |-> <<scalar>>] or [list |-> TRUE, v |-> sequence].  *)
(***************************************************************************)
Scalar(v) == [list |-> FALSE, v |-> <<v>>]

List(v) == [list |-> TRUE, v |-> v]

\* lines 202-205: a scalar becomes num_stages copies, a list is kept as given
Broadcast(arg, num_stages) ==
    IF arg.list THEN arg.v ELSE [i \in 1..num_stages |-> arg.v[1]]

\* lines 209-212: the stem
Stem(in_chans, dims) ==
    Then(Conv2d(in_chans, dims[1], <<4, 4>>, 4, <<0, 0>>, 1), LAMBDA conv :
    Then(LayerNorm(dims[1], "channels_first"), LAMBDA norm : Ok(<<conv, norm>>)))

\* a transition that keeps the width it normalizes at
DownsampleSameWidth(dims, i) ==
    Then(LayerNorm(dims[i], "channels_first"), LAMBDA norm :
    Then(Conv2d(dims[i], dims[i], <<2, 2>>, 2, <<0, 0>>, 1), LAMBDA conv :
        Ok(<<norm, conv>>)))

\* lines 215-218: the transition from stage i to stage i + 1 (i from 1)
Downsample(dims, i) ==
    Then(LayerNorm(dims[i], "channels_first"), LAMBDA norm :
    Then(Conv2d(dims[i], dims[i + 1], <<2, 2>>, 2, <<0, 0>>, 1), LAMBDA conv :
        Ok(<<norm, conv>>)))

RECURSIVE DownsampleLayers(_, _, _, _)
DownsampleLayers(layers, dims, num_stages, i) ==
    IF i > num_stages - 1 THEN Ok(layers)
    ELSE Then(Downsample(dims, i), LAMBDA d :
              DownsampleLayers(Append(layers, d), dims, num_stages, i + 1))

\* line 222: torch.linspace(0, drop_path_rate, sum(depths)), as fractions of
\* the rate unit; a single step is the start value alone
Linspace(drop_path_rate, steps) ==
    IF steps = 1 THEN <<Rate(0, 1)>>
    ELSE [k \in 1..steps |-> Rate(drop_path_rate * (k - 1), steps - 1)]

\* line 227: the kernel sizes every block is built with
BlockKernelSizes == <<3, 5, 7>>

(***************************************************************************)
(* Lines 223-233.  f is the constructor's frame: the stages built so far,  *)
(* the running index cur, the log of the MSCABlock calls made, and whether *)
(* something raised.  Block j (from 0) of stage i (from 1) is built from   *)
(* dims[i], dp_rates[cur + j] and conv_fns[i], evaluated in that order.    *)
(***************************************************************************)
BlockIndex(cur, j) == cur + j

\* a block of stage i given the stage's entry of the kernel_sizes argument
BlockKernelsFromArg(f, i) ==
    IF i <= Len(f.kernel_sizes)
    THEN <<3, f.kernel_sizes[i], f.kernel_sizes[i]>>
    ELSE <<>>

\* line 227: what a block of stage i is given as kernel_sizes; the frame's
\* kernel_sizes list is not read
BlockKernels(f, i) == BlockKernelSizes

BuildBlock(f, dims, layer_scale_init_value, i, j) ==
    LET k == BlockIndex(f.cur, j)
    IN  IF i > Len(dims) THEN Raise("IndexError", "dims")
        ELSE IF k + 1 > Len(f.dp_rates) THEN Raise("IndexError", "dp_rates")
        ELSE IF i > Len(f.conv_fns) THEN Raise("IndexError", "conv_fns")
        ELSE MSCABlock(dims[i], BlockKernels(f, i), f.dp_rates[k + 1],
                       layer_scale_init_value, f.conv_fns[i])

\* the log entry of that call: its indices, the width, rate and kernel sizes
\* it was given, and its outcome
BlockCall(f, dims, i, j, b) ==
    [stage |-> i, j |-> j, k |-> BlockIndex(f.cur, j),
     dim |-> IF i <= Len(dims) THEN dims[i] ELSE 0,
     drop_path |-> IF BlockIndex(f.cur, j) + 1 <= Len(f.dp_rates)
                   THEN f.dp_rates[BlockIndex(f.cur, j) + 1] ELSE Rate(0, 1),
     kernel_sizes |-> BlockKernels(f, i), raised |-> b.raised, at |-> b.at]

\* the frame after block j of stage i was attempted with outcome b
Logged(f, dims, i, j, b) ==
    [f EXCEPT !.calls = Append(f.calls, BlockCall(f, dims, i, j, b)),
              !.raised = b.raised, !.at = b.at]

RECURSIVE BuildStage(_, _, _, _, _, _, _)
RECURSIVE AfterBlock(_, _, _, _, _, _, _, _)
AfterBlock(f, blocks, b, depths, dims, layer_scale_init_value, i, j) ==
    IF b.raised # "none" THEN Logged(f, dims, i, j, b)
    ELSE BuildStage(Logged(f, dims, i, j, b), Append(blocks, b.v), depths, dims,
                    layer_scale_init_value, i, j + 1)

\* lines 225-232: the blocks j = 0 .. depths[i] - 1 of stage i, in order
BuildStage(f, blocks, depths, dims, layer_scale_init_value, i, j) ==
    IF j >= depths[i] THEN [f EXCEPT !.stages = Append(f.stages, blocks)]
    ELSE AfterBlock(f, blocks, BuildBlock(f, dims, layer_scale_init_value, i, j),
                    depths, dims, layer_scale_init_value, i, j)

RECURSIVE BuildStages(_, _, _, _, _)
RECURSIVE AfterStage(_, _, _, _, _)
\* line 233: cur += depths[i]
AfterStage(g, depths, dims, layer_scale_init_value, i) ==
    IF g.raised # "none" THEN g
    ELSE BuildStages([g EXCEPT !.cur = g.cur + depths[i],
                               !.starts = Append(g.starts, g.cur)],
                     depths, dims, layer_scale_init_value, i + 1)

\* line 224: the stages i = 1 .. num_stages, in order
BuildStages(f, depths, dims, layer_scale_init_value, i) ==
    IF f.raised # "none" \/ i > f.num_stages THEN f
    ELSE AfterStage(BuildStage(f, <<>>, depths, dims, layer_scale_init_value, i, 0),
                    depths, dims, layer_scale_init_value, i)

\* the frame at line 223, before the first stage
Frame(num_stages, kernel_sizes, conv_fns, layers, dp_rates) ==
    [raised |-> layers.raised, at |-> layers.at, num_stages |-> num_stages,
     kernel_sizes |-> kernel_sizes, conv_fns |-> conv_fns,
     downsample_layers |-> layers.v, dp_rates |-> dp_rates,
     stages |-> <<>>, cur |-> 0, starts |-> <<>>, calls |-> <<>>]

\* lines 208-219
AllDownsampleLayers(in_chans, dims, num_stages) ==
    Then(Stem(in_chans, dims), LAMBDA stem :
         DownsampleLayers(<<stem>>, dims, num_stages, 1))

\* lines 235-236, and what the constructor returns: [raised, at, v]; v is the
\* object as far as it was built (with the frame's cur and calls), also when
\* the constructor raised
Constructed(f, num_classes, dims) ==
    [raised |-> f.raised, at |-> f.at,
     v |-> [cls |-> "ConvNeXt", num_stages |-> f.num_stages,
            num_classes |-> num_classes,
            kernel_sizes |-> f.kernel_sizes, conv_fns |-> f.conv_fns,
            downsample_layers |-> f.downsample_layers,
            dp_rates |-> f.dp_rates, stages |-> f.stages,
            cur |-> f.cur, starts |-> f.starts, calls |-> f.calls,
            norm |-> dims[Len(dims)],
            head |-> <<dims[Len(dims)], num_classes>>]]

ConvNeXt(in_chans, num_classes, depths, dims, drop_path_rate, layer_scale_init_value, kernel_sizes, conv_fns) ==
    Constructed(
        BuildStages(Frame(Len(depths), Broadcast(kernel_sizes, Len(depths)),
                          Broadcast(conv_fns, Len(depths)),
                          AllDownsampleLayers(in_chans, dims, Len(depths)),
                          Linspace(drop_path_rate, SumSeq(depths))),
                    depths, dims, layer_scale_init_value, 1),
        num_classes, dims)

(***************************************************************************)
(* ConvNeXt.forward_features and forward.  A run is [raised, at, v, trace]:*)
(* the tensor so far and the layers applied, in order.                     *)
(***************************************************************************)
Apply(r, name, F(_)) ==
    IF r.raised # "none" THEN r
    ELSE LET y == F(r.v)
         IN  [raised |-> y.raised, at |-> y.at, v |-> y.v,
              trace |-> Append(r.trace, name)]

\* a downsample layer is nn.Sequential of a convolution and a normalization
Layer_forward(m, t, by) ==
    IF m.cls = "LayerNorm" THEN LayerNorm_forward(m, t, by)
    ELSE Conv2d_forward(m, t, by)

Downsample_forward(layer, t) ==
    Then(Layer_forward(layer[1], t, "downsample.0"), LAMBDA u :
         Layer_forward(layer[2], u, "downsample.1"))

\* a stage is nn.Sequential of its blocks; an empty one returns its input
RECURSIVE Stage_forward(_, _, _, _)
Stage_forward(blocks, t, training, draw) ==
    IF blocks = <<>> THEN Ok(t)
    ELSE Then(MSCABlock_forward(Head(blocks), t, training, draw), LAMBDA u :
              Stage_forward(Tail(blocks), u, training, draw))

\* x.mean([-2, -1]): (N, C, H, W) -> (N, C)
mean_spatial(t) == [t EXCEPT !.C = Channels("pool", Len(t.C)), !.H = 1, !.W = 1,
                            !.layout = "NC"]

\* the two lines of the loop body exchanged
StageFirst(r, m, i, training, draw) ==
    Apply(Apply(r, <<"stage", i>>,
                LAMBDA t : Stage_forward(m.stages[i], t, training, draw)),
          <<"downsample", i>>,
          LAMBDA t : Downsample_forward(m.downsample_layers[i], t))

\* lines 249-250: one turn of the loop
DownsampleThenStage(r, m, i, training, draw) ==
    Apply(Apply(r, <<"downsample", i>>,
                LAMBDA t : Downsample_forward(m.downsample_layers[i], t)),
          <<"stage", i>>,
          LAMBDA t : Stage_forward(m.stages[i], t, training, draw))

RECURSIVE ForwardLoop(_, _, _, _, _)
ForwardLoop(r, m, i, training, draw) ==
    IF i > m.num_stages THEN r
    ELSE ForwardLoop(DownsampleThenStage(r, m, i, training, draw), m, i + 1,
                     training, draw)

forward_features(m, t, training, draw) ==
    LET r0 == [raised |-> "none", at |-> "", v |-> t, trace |-> <<>>]
        r1 == ForwardLoop(r0, m, 1, training, draw)
        r2 == Apply(r1, <<"pool", 0>>, LAMBDA u : Ok(mean_spatial(u)))
    IN  Apply(r2, <<"norm", 0>>,
              LAMBDA u : LayerNorm_forward([normalized_shape |-> m.norm,
                                            data_format |-> "channels_last"],
                                           u, "norm"))

ConvNeXt_forward(m, t, training, draw) ==
    Apply(forward_features(m, t, training, draw), <<"head", 0>>,
          LAMBDA u : Linear_forward(m.head[1], m.head[2], u, "head"))

\* defaults of ConvNeXt.__init__: in_chans, and layer_scale_init_value in
\* units of 1e-6
InChans == 3

LayerScaleInit == 1

\* depths and dims of convnext_tiny
TinyDepths == <<3, 3, 9, 3>>

TinyDims == <<96, 192, 384, 768>>

(***************************************************************************)
(* The registered factories.  model_urls holds a locator per               *)
(* (configuration, variant); each factory builds its ConvNeXt first and    *)
(* only then looks at pretrained and in_22k.  Three shapes of factory:     *)
(*   "official"  tiny, small, base, large: the url by in_22k, the          *)
(*               parameters read from checkpoint["model"]                  *)
(*   "repo"      tiny_k5, tiny_k3, tiny_k3_par*: assert not in_22k, the    *)
(*               checkpoint itself given to load_state_dict                *)
(*   "xlarge"    assert in_22k inside "if pretrained", checkpoint["model"] *)
(***************************************************************************)
model_urls ==
    { <<"convnext_tiny", "1k">>, <<"convnext_small", "1k">>,
      <<"convnext_base", "1k">>, <<"convnext_large", "1k">>,
      <<"convnext_tiny", "22k">>, <<"convnext_small", "22k">>,
      <<"convnext_base", "22k">>, <<"convnext_large", "22k">>,
      <<"convnext_xlarge", "22k">>,
      <<"convnext_tiny_k5", "1k">>, <<"convnext_tiny_k3", "1k">>,
      <<"convnext_tiny_k3_par1_2", "1k">>, <<"convnext_tiny_k3_par3_8", "1k">>,
      <<"convnext_tiny_k3_par1_4", "1k">>, <<"convnext_tiny_k3_par1_8", "1k">>,
      <<"convnext_tiny_k3_par1_16", "1k">> }

Config(kind, depths, dims, kernel_sizes, conv_fns) ==
    [kind |-> kind, depths |-> depths, dims |-> dims,
     kernel_sizes |-> kernel_sizes, conv_fns |-> conv_fns]

TinyK3(conv_fn) == Config("repo", TinyDepths, TinyDims, Scalar(3), Scalar(conv_fn))

SmallDepths == <<3, 3, 27, 3>>

Factories ==
    [ convnext_tiny |-> Config("official", TinyDepths, TinyDims, Scalar(7), Scalar(StdConv)),
      convnext_tiny_k5 |-> Config("repo", TinyDepths, TinyDims, Scalar(5), Scalar(StdConv)),
      convnext_tiny_k3 |-> TinyK3(StdConv),
      convnext_tiny_k3_par1_2 |-> TinyK3(Partial(1, 2)),
      convnext_tiny_k3_par3_8 |-> TinyK3(Partial(3, 8)),
      convnext_tiny_k3_par1_4 |-> TinyK3(Partial(1, 4)),
      convnext_tiny_k3_par1_8 |-> TinyK3(Partial(1, 8)),
      convnext_tiny_k3_par1_16 |-> TinyK3(Partial(1, 16)),
      convnext_small |-> Config("official", SmallDepths, TinyDims, Scalar(7), Scalar(StdConv)),
      convnext_base |-> Config("official", SmallDepths, <<128, 256, 512, 1024>>,
                               Scalar(7), Scalar(StdConv)),
      convnext_large |-> Config("official", SmallDepths, <<192, 384, 768, 1536>>,
                                Scalar(7), Scalar(StdConv)),
      convnext_xlarge |-> Config("xlarge", SmallDepths, <<256, 512, 1024, 2048>>,
                                 Scalar(7), Scalar(StdConv)) ]

Variant(in_22k) == IF in_22k THEN "22k" ELSE "1k"

\* the classes of the head a checkpoint of that variant holds
CheckpointClasses(variant) == IF variant = "22k" THEN 21841 ELSE 1000

\* what a factory call left: the exception and the step that raised it
\* ("ConvNeXt", "variant", "model_urls", "checkpoint", "load_state_dict"),
\* whether the hub was asked for the url, and whether parameters were loaded
Returned(raised, at, fetched, loaded) ==
    [raised |-> raised, at |-> at, fetched |-> fetched, loaded |-> loaded]

\* torch.hub.load_state_dict_from_url, then model.load_state_dict of either
\* checkpoint["model"] (key = TRUE) or the checkpoint itself; form is how the
\* retrieved checkpoint is stored
LoadPretrained(name, variant, num_classes, key, form) ==
    IF <<name, variant>> \notin model_urls
    THEN Returned("KeyError", "model_urls", FALSE, FALSE)
    ELSE IF key /\ form = "flat"
    THEN Returned("KeyError", "checkpoint", TRUE, FALSE)
    ELSE IF ~key /\ form = "nested"
    THEN Returned("RuntimeError", "load_state_dict", TRUE, FALSE)
    ELSE IF num_classes # CheckpointClasses(variant)
    THEN Returned("RuntimeError", "load_state_dict", TRUE, FALSE)
    ELSE Returned("none", "", TRUE, TRUE)

AfterBuild(name, kind, pretrained, in_22k, num_classes, form) ==
    IF kind = "repo"
    THEN IF in_22k THEN Returned("AssertionError", "variant", FALSE, FALSE)
         ELSE IF pretrained THEN LoadPretrained(name, "1k", num_classes, FALSE, form)
         ELSE Returned("none", "", FALSE, FALSE)
    ELSE IF kind = "xlarge"
    THEN IF ~pretrained THEN Returned("none", "", FALSE, FALSE)
         ELSE IF ~in_22k THEN Returned("AssertionError", "variant", FALSE, FALSE)
         ELSE LoadPretrained(name, "22k", num_classes, TRUE, form)
    ELSE IF pretrained
         THEN LoadPretrained(name, Variant(in_22k), num_classes, TRUE, form)
         ELSE Returned("none", "", FALSE, FALSE)

BuildModel(name, num_classes) ==
    ConvNeXt(InChans, num_classes, Factories[name].depths, Factories[name].dims, 0,
             LayerScaleInit, Factories[name].kernel_sizes, Factories[name].conv_fns)

Factory(model, name, pretrained, in_22k, num_classes, form) ==
    IF model.raised # "none"
    THEN Returned(model.raised, "ConvNeXt", FALSE, FALSE)
    ELSE AfterBuild(name, Factories[name].kind, pretrained, in_22k, num_classes, form)

(***************************************************************************)
(* Inputs shared by the programs.                                          *)
(***************************************************************************)
\* conv_ratio values of the registered configurations, and 1.0
Ratios == { One, [num |-> 1, den |-> 2], [num |-> 3, den |-> 8],
            [num |-> 1, den |-> 4], [num |-> 1, den |-> 8], [num |-> 1, den |-> 16] }

Batches == {1, 2}

Sizes == {1, 4}

(***************************************************************************)
(* Program 1: PartialConv2d(C, C, k, conv_ratio=r, padding, groups)        *)
(* followed by forward on an input of C channels.  The channel counts are  *)
(* those whose convolved slice int(C * r) holds at least one channel.      *)
(***************************************************************************)
MaxChannels == 8

PartialArgs ==
    { a \in [in_channels : 1..MaxChannels, conv_ratio : Ratios,
             geom : 1..3, depthwise : BOOLEAN] :
        IntTimes(a.in_channels, a.conv_ratio) >= 1 }

InitPartial ==
    /\ args \in PartialArgs
    /\ self = Nothing
    /\ x = Nothing
    /\ out = Nothing
    /\ pc = "new"

PartialConv2d_init ==
    /\ pc = "new"
    /\ self' = PartialConv2d(args.in_channels, args.in_channels,
                             BranchGeom[args.geom].kernel_size, args.conv_ratio, 1,
                             BranchGeom[args.geom].padding,
                             IF args.depthwise THEN args.in_channels ELSE 1)
    /\ pc' = "constructed"
    /\ UNCHANGED <<args, x, out>>

PartialConv2d_call ==
    /\ pc = "constructed"
    /\ self.raised = "none"
    /\ \E N \in Batches, H \in Sizes, W \in Sizes :
          /\ x' = Ok(Input(N, args.in_channels, H, W))
          /\ out' = PartialConv2d_forward(self.v, Input(N, args.in_channels, H, W), "conv")
    /\ pc' = "forwarded"
    /\ UNCHANGED <<args, self>>

NextPartial == PartialConv2d_init \/ PartialConv2d_call

SpecPartial == InitPartial /\ [][NextPartial]_vars

MaxDim == 17

KernelLists == { <<3, 11, 11>>, <<3, 7, 11>>, <<3, 5, 7>>, <<11, 11, 3>>,
                 <<3, 11>>, <<3, 11, 11, 11>>, <<7, 7, 7>> }

BlockArgs ==
    [dim : 1..MaxDim, kernel_sizes : KernelLists,
     drop_path : {Rate(0, 1), Rate(1, 2)},
     layer_scale_init_value : {0, 1},
     conv_fn : {StdConv, Partial(1, 2)}]

InitBlock ==
    /\ args \in BlockArgs
    /\ self = Nothing
    /\ x = Nothing
    /\ out = Nothing
    /\ pc = "new"

MSCABlock_init ==
    /\ pc = "new"
    /\ self' = MSCABlock(args.dim, args.kernel_sizes, args.drop_path,
                         args.layer_scale_init_value, args.conv_fn)
    /\ pc' = "constructed"
    /\ UNCHANGED <<args, x, out>>

\* what a call was given: the input, the module's mode, and the outcome of
\* the call before it on the same input (Nothing for the first call)
Called(t, training, first) ==
    [raised |-> "none", at |-> "", v |-> t, training |-> training, first |-> first]

MSCABlock_call ==
    /\ pc = "constructed"
    /\ self.raised = "none"
    /\ \E N \in Batches, H \in Sizes, W \in Sizes, training \in BOOLEAN, draw \in BOOLEAN :
          /\ x' = Called(Input(N, args.dim, H, W), training, Nothing)
          /\ out' = MSCABlock_forward(self.v, Input(N, args.dim, H, W), training, draw)
    /\ pc' = "forwarded"
    /\ UNCHANGED <<args, self>>

\* the same block called a second time on the same input in the same mode;
\* what DropPath draws is independent of the first call
MSCABlock_call_again ==
    /\ pc = "forwarded"
    /\ \E draw \in BOOLEAN :
          out' = MSCABlock_forward(self.v, x.v, x.training, draw)
    /\ x' = Called(x.v, x.training, out)
    /\ pc' = "forwarded_again"
    /\ UNCHANGED <<args, self>>

NextBlock == MSCABlock_init \/ MSCABlock_call \/ MSCABlock_call_again

SpecBlock == InitBlock /\ [][NextBlock]_vars

\* C2: for a dim divisible by 8 and any spatial size, MSCABlock.forward on
\* [N, dim, H, W] completes without error and returns [N, dim, H, W].
C2_BlockShapeLaw ==
    (pc = "forwarded" /\ args.dim % 8 = 0) =>
        /\ out.raised = "none"
        /\ Shape(out.v) = Shape(x.v)

C4_WidthRejected ==
    (pc # "new" /\ (args.dim % 4 # 0 \/ args.dim % 8 # 0)) => self.raised # "none"

\* C12: a forward in inference mode returns with the residual branch kept and
\* not rescaled, and a second forward of the same block on the same input
\* returns the same output; a block built with rate 0 holds nn.Identity and
\* keeps the branch in training mode too; a block built with a rate p > 0 in
\* training mode returns with the branch zeroed or kept (rescaled).
C12_InferenceIdentity ==
    /\ (pc = "forwarded" /\ ~x.training) =>
           /\ out.raised = "none"
           /\ out.v.branch = "kept"
    /\ (pc = "forwarded_again" /\ ~x.training) =>
           /\ out.raised = "none"
           /\ x.first.raised = "none"
           /\ out.v = x.first.v
    /\ (pc = "forwarded" /\ x.training /\ ~Positive(args.drop_path)) =>
           /\ self.v.drop_path.cls = "Identity"
           /\ out.raised = "none"
           /\ out.v.branch = "kept"
    /\ (pc = "forwarded" /\ x.training /\ Positive(args.drop_path)) =>
           /\ self.v.drop_path.cls = "DropPath"
           /\ out.raised = "none"
           /\ out.v.branch \in {"zeroed", "kept_rescaled"}

\* what the drop_path module of a constructed block would do with a branch
\* handed to it: identity in eval mode whatever is drawn, identity in
\* training mode when the rate is 0, and both outcomes of the draw otherwise
DropPathLaw ==
    (pc # "new" /\ self.raised = "none") =>
        /\ \A draw \in BOOLEAN : drop_path_forward(self.v.drop_path, FALSE, draw) = "kept"
        /\ ~Positive(args.drop_path) =>
               /\ self.v.drop_path.cls = "Identity"
               /\ \A draw \in BOOLEAN :
                      drop_path_forward(self.v.drop_path, TRUE, draw) = "kept"
        /\ Positive(args.drop_path) =>
               {drop_path_forward(self.v.drop_path, TRUE, draw) : draw \in BOOLEAN}
                   = {"zeroed", "kept_rescaled"}

\* both calls of a block, in either mode, end in the same error
BothCallsRaise ==
    pc = "forwarded_again" =>
        /\ out.raised = "RuntimeError"
        /\ x.first.raised = out.raised
        /\ x.first.at = out.at

(***************************************************************************)
(* Program 3: ConvNeXt(depths, dims, drop_path_rate, kernel_sizes,         *)
(* conv_fns, num_classes) followed by forward on an image batch.  depths   *)
(* and dims have the same length; a depth may be 0 (an empty stage).  The  *)
(* lists given for kernel_sizes and conv_fns are one shorter than, as long *)
(* as, or one longer than depths; kernel_sizes may be 7, 5, 3 or the list  *)
(* [3, 7, 11].  The geometry of convnext_tiny is among the inputs.  The   *)
(* rate is 0 or one rate unit.                                             *)
(***************************************************************************)
MaxStages == 3

DepthChoices == {0, 1, 2}

DimChoices == {8, 12}

NumClasses == {5, 10}

DropPathRates == {0, 1}

InputSizes == {8, 32, 224}

Repeat(v, n) == [i \in 1..n |-> v]

KernelSizeArgs(n) ==
    {Scalar(7), Scalar(5), Scalar(3), List(<<3, 7, 11>>)}
        \cup {List(Repeat(7, m)) : m \in {n - 1, n, n + 1}}

ConvFnArgs(n) ==
    {Scalar(StdConv), Scalar(Partial(1, 2))}
        \cup {List(Repeat(StdConv, m)) : m \in {n - 1, n, n + 1}}

Geometries ==
    {[depths |-> TinyDepths, dims |-> TinyDims]}
        \cup UNION {[depths : [1..n -> DepthChoices], dims : [1..n -> DimChoices]] :
                      n \in 1..MaxStages}

Init ==
    /\ \E g \in Geometries :
        \E ks \in KernelSizeArgs(Len(g.depths)), fns \in ConvFnArgs(Len(g.depths)),
           rate \in DropPathRates, nc \in NumClasses :
            args = [depths |-> g.depths, dims |-> g.dims, kernel_sizes |-> ks,
                    conv_fns |-> fns, drop_path_rate |-> rate, num_classes |-> nc]
    /\ self = Nothing
    /\ x = Nothing
    /\ out = Nothing
    /\ pc = "new"

ConvNeXt_init ==
    /\ pc = "new"
    /\ self' = ConvNeXt(InChans, args.num_classes, args.depths, args.dims,
                        args.drop_path_rate, LayerScaleInit, args.kernel_sizes,
                        args.conv_fns)
    /\ pc' = "constructed"
    /\ UNCHANGED <<args, x, out>>

ConvNeXt_call ==
    /\ pc = "constructed"
    /\ self.raised = "none"
    /\ \E N \in Batches, H \in InputSizes, W \in InputSizes,
          training \in BOOLEAN, draw \in BOOLEAN :
          /\ x' = Ok(Input(N, InChans, H, W))
          /\ out' = ConvNeXt_forward(self.v, Input(N, InChans, H, W), training, draw)
    /\ pc' = "forwarded"
    /\ UNCHANGED <<args, self>>

Next == ConvNeXt_init \/ ConvNeXt_call

Spec == Init /\ [][Next]_vars

PositiveDepths == \A i \in 1..Len(args.depths) : args.depths[i] >= 1

DimsDivisibleBy8 == \A i \in 1..Len(args.dims) : args.dims[i] % 8 = 0

\* C1: for depths and dims of equal length, positive depths and every dims[i]
\* divisible by 8, constructing the backbone does not raise.
C1_BuildSucceeds ==
    (pc # "new" /\ PositiveDepths /\ DimsDivisibleBy8) => self.raised = "none"

ListMismatch(arg) == arg.list /\ Len(arg.v) # Len(args.depths)

\* C5: scalar kernel_sizes and conv_fns are broadcast to exactly len(depths)
\* entries; an explicit list whose length differs from len(depths), shorter or
\* longer, makes the constructor raise: it is neither accepted nor left to
\* fail on an out-of-range index.
C5_ListLengths ==
    pc # "new" =>
        /\ (~args.kernel_sizes.list => Len(self.v.kernel_sizes) = Len(args.depths))
        /\ (~args.conv_fns.list => Len(self.v.conv_fns) = Len(args.depths))
        /\ ((ListMismatch(args.kernel_sizes) \/ ListMismatch(args.conv_fns))
               => self.raised \notin {"none", "IndexError"})

RateIs(r, num, den) == r.num * den = num * r.den

Received(k, num, den) ==
    \E c \in 1..Len(self.v.calls) :
        /\ self.v.calls[c].k = k
        /\ RateIs(self.v.calls[c].drop_path, num, den)

\* C9: with n = sum(depths) >= 2 blocks, when the constructor is over the
\* block with global index k has received the rate drop_path_rate * k / (n - 1),
\* for every k in 0..n-1 (0 for the first block, drop_path_rate for the last
\* block of the last stage), and the running index at the start of stage i
\* was depths[0] + ... + depths[i-1].
C9_DropPathSchedule ==
    (pc # "new" /\ SumSeq(args.depths) >= 2) =>
        LET n == SumSeq(args.depths)
        IN  /\ \A k \in 0..(n - 1) : Received(k, args.drop_path_rate * k, n - 1)
            /\ Received(0, 0, 1)
            /\ Received(n - 1, args.drop_path_rate, 1)
            /\ \A i \in 1..Len(self.v.starts) :
                   self.v.starts[i] = SumSeq(SubSeq(args.depths, 1, i - 1))

\* the order forward applies the layers in, for num_stages stages
ExpectedTrace(n) ==
    [p \in 1..(2 * n + 3) |->
        IF p > 2 * n
        THEN <<(<<"pool", "norm", "head">>)[p - 2 * n], 0>>
        ELSE IF p % 2 = 1 THEN <<"downsample", (p + 1) \div 2>>
        ELSE <<"stage", p \div 2>>]

\* C10: forward applies downsample_layers[i] and then stages[i] for
\* i = 0 .. num_stages - 1 in increasing order, each once, then the spatial
\* mean, then the final normalization, and the head last: what it has applied
\* is always a prefix of that order, and all of it when nothing raised.
C10_ForwardOrder ==
    pc = "forwarded" =>
        LET expected == ExpectedTrace(self.v.num_stages)
        IN  /\ Len(out.trace) <= Len(expected)
            /\ out.trace = SubSeq(expected, 1, Len(out.trace))
            /\ (out.raised = "none" => out.trace = expected)
            /\ (out.raised # "none" => Len(out.trace) >= 1)

\* a forward through three transitions and three stages that returned
C10_Witness ==
    /\ pc = "forwarded"
    /\ out.raised = "none"
    /\ self.v.num_stages = 3
    /\ Len(out.trace) = 9
    /\ out.trace[5] = <<"downsample", 3>>
    /\ out.trace[6] = <<"stage", 3>>
    /\ out.trace[9] = <<"head", 0>>

\* the width downsample layer i (from 1) delivers, and the width it takes
DeliveredWidth(i) == self.v.downsample_layers[i][IF i = 1 THEN 1 ELSE 2].out_channels

NormalizedWidth(i) == self.v.downsample_layers[i][IF i = 1 THEN 2 ELSE 1].normalized_shape

\* C11: after a successful construction there are len(depths) downsample
\* layers (the stem included) and len(depths) stages; stage i holds depths[i]
\* blocks, all of width dims[i]; the stem convolves in_chans to dims[0] and
\* normalizes there, transition i normalizes at dims[i-1] and convolves
\* dims[i-1] to dims[i]; so every stage is delivered the width of its blocks.
\* Whether or not construction succeeded, every block the constructor asked
\* for in stage i was asked for at width dims[i].
C11_StageStructure ==
    pc # "new" =>
        /\ self.raised = "none" =>
            /\ Len(self.v.downsample_layers) = Len(args.depths)
            /\ Len(self.v.stages) = Len(args.depths)
            /\ self.v.num_stages = Len(args.depths)
            /\ \A i \in 1..Len(args.depths) :
                /\ Len(self.v.stages[i]) = args.depths[i]
                /\ \A j \in 1..Len(self.v.stages[i]) :
                       self.v.stages[i][j].dim = args.dims[i]
                /\ DeliveredWidth(i) = args.dims[i]
                /\ i = 1 =>
                    /\ self.v.downsample_layers[1][1].in_channels = InChans
                    /\ NormalizedWidth(1) = args.dims[1]
                /\ i > 1 =>
                    /\ NormalizedWidth(i) = args.dims[i - 1]
                    /\ self.v.downsample_layers[i][2].in_channels = args.dims[i - 1]
        /\ \A c \in 1..Len(self.v.calls) :
               self.v.calls[c].dim = args.dims[self.v.calls[c].stage]

\* a backbone of three stages built over the widths 8, 12, 8
C11_Witness ==
    /\ pc = "constructed"
    /\ self.raised = "none"
    /\ args.dims = <<8, 12, 8>>
    /\ Len(self.v.downsample_layers) = 3
    /\ Len(self.v.stages) = 3
    /\ DeliveredWidth(2) = 12
    /\ NormalizedWidth(2) = 8

\* the construction from the same arguments with kernel_sizes replaced
WithKernelSizes(ks) ==
    ConvNeXt(InChans, args.num_classes, args.depths, args.dims,
             args.drop_path_rate, LayerScaleInit, ks, args.conv_fns)

\* two constructions end alike: the same outcome, the same block calls with
\* the same arguments and outcomes, the same stages and downsample layers
SameConstruction(a, b) ==
    /\ a.raised = b.raised
    /\ a.at = b.at
    /\ a.v.calls = b.v.calls
    /\ a.v.stages = b.v.stages
    /\ a.v.downsample_layers = b.v.downsample_layers

\* C13: the kernel_sizes argument of the constructor has no influence on the
\* blocks: every block is asked for with the same kernel triplet, and a
\* construction with any kernel_sizes (a scalar 7, 5 or 3, or a list of any
\* length) ends as the one that differs from it only in kernel_sizes = 7
\* does: the same outcome, success or the same error, after the same block
\* calls.  Any two constructions that differ only in kernel_sizes therefore
\* end alike.
C13_KernelSizesIgnored ==
    pc = "constructed" =>
        /\ \A c \in 1..Len(self.v.calls) :
               self.v.calls[c].kernel_sizes = <<3, 5, 7>>
        /\ SameConstruction(WithKernelSizes(Scalar(7)), self)

\* the geometry of convnext_tiny built with kernel_sizes=5 (convnext_tiny_k5)
\* ends as it does with 7 (convnext_tiny) and with 3 (convnext_tiny_k3)
C13_Witness ==
    /\ pc = "constructed"
    /\ args.depths = TinyDepths
    /\ args.dims = TinyDims
    /\ args.kernel_sizes = Scalar(5)
    /\ Len(self.v.calls) = 1
    /\ self.v.calls[1].kernel_sizes = <<3, 5, 7>>
    /\ self.raised = WithKernelSizes(Scalar(7)).raised
    /\ self.raised = WithKernelSizes(Scalar(3)).raised
    /\ self.v.kernel_sizes # WithKernelSizes(Scalar(7)).v.kernel_sizes

(***************************************************************************)
(* Program 4: a call of a registered factory with pretrained, in_22k and   *)
(* num_classes; x is the form of the checkpoint the hub would serve.       *)
(***************************************************************************)
FactoryArgs ==
    [name : DOMAIN Factories, pretrained : BOOLEAN, in_22k : BOOLEAN,
     num_classes : {1000, 21841}]

InitFactory ==
    /\ args \in FactoryArgs
    /\ self = Nothing
    /\ x \in {Ok("nested"), Ok("flat")}
    /\ out = Nothing
    /\ pc = "new"

factory_call ==
    /\ pc = "new"
    /\ self' = BuildModel(args.name, args.num_classes)
    /\ out' = Factory(self', args.name, args.pretrained, args.in_22k,
                      args.num_classes, x.v)
    /\ pc' = "returned"
    /\ UNCHANGED <<args, x>>

NextFactory == factory_call

SpecFactory == InitFactory /\ [][NextFactory]_vars

HasLocator == <<args.name, Variant(args.in_22k)>> \in model_urls

\* C7: a factory call fails on account of the weight variant exactly when
\* pretrained is set and model_urls has no locator for (configuration,
\* variant); that failure is an assertion raised before the hub is asked;
\* with pretrained unset the variant flag causes no failure.
C7_VariantFailure ==
    pc = "returned" =>
        /\ (out.at = "variant") <=> (args.pretrained /\ ~HasLocator)
        /\ (out.at = "variant" => out.raised = "AssertionError" /\ ~out.fetched)
        /\ (~args.pretrained => out.at # "variant")

\* C8: when a factory loads pretrained weights that exist for the requested
\* variant and fit the head, the checkpoint is accepted nested under "model"
\* or flat: the parameters are loaded.
C8_BothCheckpointForms ==
    (pc = "returned" /\ args.pretrained /\ HasLocator
        /\ args.num_classes = CheckpointClasses(Variant(args.in_22k)))
        => (out.raised = "none" /\ out.loaded)

====
